---- MODULE Spec2Model ----
(***************************************************************************)
(* A model of the fall-detection service (src/ai-service): the request     *)
(* handlers of main.py, the result store of database.py and the lock       *)
(* protected classifier of model_service.py.                               *)
(*                                                                         *)
(* Every request is one process.  A handler step ends where the code       *)
(* awaits (a store operation, the model lock) or where it hands an image   *)
(* to the inference capability: each inference query is a step of its own, *)
(* so other requests may run between two queries and the model lock, not   *)
(* the scheduler, is what keeps classifications apart.                     *)
(***************************************************************************)
EXTENDS Integers, Sequences, FiniteSets, TLC

\* ------------------------------------------------------------ bounds
\* Number of requests (each served by one process).
NumProcs == 2
\* Longest batch whose items are processed.
MaxBatchLen == 2
\* Largest elapsed time (ms) a request may measure.
MaxElapsed == 2
\* Longest raw answer handed to _ask_yes_no directly, in pieces.
MaxPieces == 3
\* Longest payload handed to calculate_image_hash directly, in bytes.
MaxPayloadLen == 3
\* Largest width and height handed to _make_crops directly.
MaxSide == 6

\* ------------------------------------------------- program constants
\* main.py:166  if len(files) > 10
MaxBatch == 10
\* model_service.py:171  round(confidence, 3), kept as thousandths
Thousand == 1000

Procs == 1..NumProcs
Elapsed == 1..MaxElapsed

\* ------------------------------------------------------------ inputs
\* An uploaded payload is a byte sequence.  A payload the image library can
\* open is <<ImageMagic, width, height>>; everything else fails to decode.
ImageMagic == 1
PayloadA == <<ImageMagic, 4, 3>>
PayloadB == <<ImageMagic, 2, 2>>
PayloadEmpty == << >>
PayloadText == <<0>>

ImageTypes == {"image/jpeg", "image/png"}

FileA == [filename |-> "a.jpg", content_type |-> "image/jpeg", bytes |-> PayloadA]
FileB == [filename |-> "b.png", content_type |-> "image/png", bytes |-> PayloadB]
FileEmpty == [filename |-> "empty.jpg", content_type |-> "image/jpeg", bytes |-> PayloadEmpty]
FileText == [filename |-> "notes.txt", content_type |-> "text/plain", bytes |-> PayloadText]

Files == {FileA, FileB, FileEmpty, FileText}

\* The batches a client sends: every batch of 1..MaxBatchLen files, and one
\* batch that is over the limit.
OversizeBatch == [i \in 1..(MaxBatch + 1) |-> FileA]
SeqsUpTo(S, n) == UNION {[1..k -> S] : k \in 1..n}
BatchInputs == SeqsUpTo(Files, MaxBatchLen) \cup {OversizeBatch}
\* The batches sent while other requests are classifying.
MixedBatchInputs == {<<FileText, FileA>>, OversizeBatch}

\* file.content_type.startswith('image/')
IsImageType(ct) == ct \in ImageTypes

\* Image.open(io.BytesIO(image_bytes)).convert("RGB") succeeds
Decodable(b) == Len(b) = 3 /\ b[1] = ImageMagic /\ b[2] >= 1 /\ b[3] >= 1
\* image_size = f"{image.size[0]}x{image.size[1]}"
ImageSize(b) == [w |-> b[2], h |-> b[3]]

\* hashlib.sha256(image_bytes).hexdigest(): a digest of the bytes, defined on
\* every byte sequence (the empty one included) and free of collisions on the
\* payloads of this model.
RECURSIVE Digest(_)
Digest(b) ==
    IF b = << >> THEN 1
    ELSE Digest(SubSeq(b, 1, Len(b) - 1)) * 8 + b[Len(b)]
calculate_image_hash(b) == Digest(b)

\* Whether calculate_image_hash raises on b: hashlib.sha256 accepts every
\* bytes object.
calculate_image_hash_raises_on_empty(b) == b = << >>
calculate_image_hash_raises(b) == FALSE

Hashes == {calculate_image_hash(f.bytes) : f \in Files}

\* ---------------------------------------------------------- the store
\* Table fall_detections: a sequence of rows in insertion order.
RowIntConfidence(h, result, confidence, size, ms, at) ==
    [image_hash |-> h, result |-> result,
     confidence |-> (confidence \div Thousand) * Thousand,
     image_size |-> size, processing_time_ms |-> ms, created_at |-> at]
Row(h, result, confidence, size, ms, at) ==
    [image_hash |-> h, result |-> result, confidence |-> confidence,
     image_size |-> size, processing_time_ms |-> ms, created_at |-> at]

RowsOf(st, h) == {i \in 1..Len(st) : st[i].image_hash = h}

\* get_statistics: COUNT(*), COUNT(CASE WHEN result = 'Yes' ...) and
\* COUNT(CASE WHEN result = 'No' ...) over the table.
CountResult(st, result) == Cardinality({i \in 1..Len(st) : st[i].result = result})
get_statistics(st) ==
    [total_processed |-> Len(st),
     fall_detected |-> CountResult(st, "Yes"),
     no_fall |-> CountResult(st, "No")]

\* SELECT ... WHERE image_hash = $1; fetchrow returns the first match or None.
None == [none |-> TRUE]
check_existing_result_miss(st, h) == None
check_existing_result(st, h) ==
    IF RowsOf(st, h) = {} THEN None
    ELSE LET row == st[CHOOSE i \in RowsOf(st, h) : \A j \in RowsOf(st, h) : i <= j]
         IN  [image_hash |-> row.image_hash, result |-> row.result,
              confidence |-> row.confidence, created_at |-> row.created_at,
              image_size |-> row.image_size,
              processing_time_ms |-> row.processing_time_ms, cached |-> TRUE]

\* INSERT ... ON CONFLICT (image_hash) DO NOTHING, under the UNIQUE constraint.
InsertAlways(st, h, result, confidence, size, ms) ==
    Append(st, Row(h, result, confidence, size, ms, Len(st) + 1))
InsertOrUpdate(st, h, result, confidence, size, ms) ==
    IF RowsOf(st, h) # {}
    THEN [i \in 1..Len(st) |->
            IF st[i].image_hash = h
            THEN Row(h, result, confidence, size, ms, st[i].created_at)
            ELSE st[i]]
    ELSE Append(st, Row(h, result, confidence, size, ms, Len(st) + 1))
InsertOrIgnoreLost(st, h, result, confidence, size, ms) == st
InsertOrIgnore(st, h, result, confidence, size, ms) ==
    IF RowsOf(st, h) # {} THEN st
    ELSE Append(st, Row(h, result, confidence, size, ms, Len(st) + 1))

\* ------------------------------------------------------ the classifier
\* A raw answer of the inference capability is a text: a sequence of
\* characters.
Space == " "
LowerOf(c) ==
    CASE c = "Y" -> "y" [] c = "E" -> "e" [] c = "S" -> "s"
      [] c = "N" -> "n" [] c = "O" -> "o" [] c = "X" -> "x"
      [] OTHER -> c
UpperOf(c) ==
    CASE c = "y" -> "Y" [] c = "e" -> "E" [] c = "s" -> "S"
      [] c = "n" -> "N" [] c = "o" -> "O" [] c = "x" -> "X"
      [] OTHER -> c

\* str.lower()
Lower(t) == [i \in 1..Len(t) |-> LowerOf(t[i])]
\* str.strip()
RECURSIVE LStrip(_)
LStrip(t) == IF t # << >> /\ t[1] = Space THEN LStrip(Tail(t)) ELSE t
RECURSIVE RStrip(_)
RStrip(t) ==
    IF t # << >> /\ t[Len(t)] = Space THEN RStrip(SubSeq(t, 1, Len(t) - 1)) ELSE t
Strip(t) == LStrip(RStrip(t))
\* str.startswith(pre)
StartsWith(t, pre) == Len(t) >= Len(pre) /\ SubSeq(t, 1, Len(pre)) = pre
\* sub in t
Contains(t, sub) ==
    \E i \in 1..(Len(t) - Len(sub) + 1) : SubSeq(t, i, i + Len(sub) - 1) = sub
\* str.capitalize()
Capitalize(t) ==
    [i \in 1..Len(t) |-> IF i = 1 THEN UpperOf(t[i]) ELSE LowerOf(t[i])]

yes == <<"y", "e", "s">>
no == <<"n", "o">>
Yes == <<"Y", "e", "s">>
No == <<"N", "o">>

\* _ask_yes_no, from the decoded text on (model_service.py:98-110).
ask_yes_no_any_yes(raw) ==
    LET text == Lower(Strip(raw))
    IN  IF StartsWith(text, yes) THEN Yes
        ELSE IF StartsWith(text, no) THEN No
        ELSE IF Contains(text, yes) THEN Yes
        ELSE IF Contains(text, no) THEN No
        ELSE IF text # << >> THEN Capitalize(text) ELSE No
ask_yes_no(raw) ==
    LET text == Lower(Strip(raw))
    IN  IF StartsWith(text, yes) THEN Yes
        ELSE IF StartsWith(text, no) THEN No
        ELSE IF Contains(text, yes) /\ ~Contains(text, no) THEN Yes
        ELSE IF Contains(text, no) THEN No
        ELSE IF text # << >> THEN Capitalize(text) ELSE No

\* What one inference query may produce: a decoded text, or a failure raised
\* by the capability.
Failure == <<"!">>
RawAnswers == {<<Space, "Y", "e", "s">>, <<"N", "o">>, <<"x">>}

\* _make_crops: the boxes (left, top, right, bottom) of the three crops.
Min(a, b) == IF a <= b THEN a ELSE b
Max(a, b) == IF a >= b THEN a ELSE b
Box(l, t, r, b) == [l |-> l, t |-> t, r |-> r, b |-> b]
make_crops_top_left(size) ==
    LET m == Min(size.w, size.h)
        s == (m * 8) \div 10
    IN  <<Box(0, 0, size.w, size.h), Box(0, 0, m, m), Box(0, 0, s, s)>>
make_crops(size) ==
    LET w == size.w
        h == size.h
        m == Min(w, h)
        l == (w - m) \div 2
        t == (h - m) \div 2
        s == (m * 8) \div 10
        l2 == Max(0, (w - s) \div 2)
        t2 == Max(0, (h - s) \div 2)
    IN  <<Box(0, 0, w, h), Box(l, t, l + m, t + m), Box(l2, t2, l2 + s, t2 + s)>>

\* final_result = "Yes" if yes_votes > no_votes else "No"
FinalResultUnsure(y, n) == IF y > n THEN "Yes" ELSE IF y = 0 THEN "No" ELSE "Unsure"
FinalResultAnyYes(y, n) == IF y > 0 THEN "Yes" ELSE "No"
FinalResult(y, n) == IF y > n THEN "Yes" ELSE "No"

\* round(max(yes_votes, no_votes) / len(crops), 3), in thousandths
ConfidenceTruncated(y, n, total) == (Thousand * Max(y, n)) \div total
Confidence(y, n, total) == (2 * Thousand * Max(y, n) + total) \div (2 * total)

\* -------------------------------------------------------------- state
VARIABLES
    lifespan,        \* "startup" | "serving" | "shutdown" (main.py lifespan)
    model_service,   \* main.py:24   the global is set (not None)
    processor,       \* ModelService.processor is loaded
    model,           \* ModelService.model is loaded
    is_initialized,  \* ModelService.is_initialized
    loadTask,        \* the initialize() task: "none" | "scheduled" | "done" | "failed"
    model_lock,      \* ModelService.model_lock is locked
    store,           \* table fall_detections
    kind,            \* per request: "single" | "batch"
    files,           \* per request: the uploaded files
    pc,              \* per request: where its handler stands
    item,            \* per request: index of the file being processed
    results,         \* per request: the batch handler's results list
    resp,            \* per request: the HTTP response, once sent
    idx,             \* detect_fall: index of the crop being asked about
    yes_votes,       \* detect_fall: yes_votes
    no_votes,        \* detect_fall: no_votes
    call,            \* a helper called directly: its argument and what it returned
    got,             \* the latest GET /result/{image_hash}: its hash and response
    crop_votes,      \* history: the vote of each crop asked so far
    asked,           \* history: the queries of the classification under way
    det,             \* the dict detect_fall returned to the handler
    trace,           \* history, per request and file: what processing it touched
    prior,           \* history, per request: what held when it arrived
    classified       \* history: fingerprints answered fresh (cached = false)

svcVars == <<lifespan, model_service, processor, model, is_initialized, loadTask>>
\* What the classify handlers are handed and never change.
reqVars == <<kind, files, call, got>>
ctlVars == <<pc, item, results, resp>>
voteVars == <<idx, yes_votes, no_votes, crop_votes, asked>>
vars == <<svcVars, model_lock, store, reqVars, ctlVars, voteVars, det, trace,
          prior, classified>>

NoResp == [status |-> 0]
NoTrace ==
    [read_failed |-> FALSE, decoded |-> FALSE, lock |-> FALSE, queries |-> 0,
     failed |-> FALSE, reached |-> FALSE, created |-> FALSE, save |-> "none"]
NoPrior == [arrived |-> FALSE, ready |-> FALSE, fresh |-> {}, stored |-> {}]
NoCall == [fn |-> "none"]
NoGot == [status |-> 0]

StoredHashes(st) == {st[i].image_hash : i \in 1..Len(st)}

\* The table as an earlier run of the service may have left it.
PersistedStores ==
    {<< >>,
     <<Row(calculate_image_hash(PayloadA), "No", Thousand, ImageSize(PayloadA), 1, 1)>>}

SingleRequests == {[kind |-> "single", files |-> <<f>>] : f \in Files}
BatchRequests == {[kind |-> "batch", files |-> fs] : fs \in BatchInputs}
MixedBatchRequests == {[kind |-> "batch", files |-> fs] : fs \in MixedBatchInputs}
RejectedRequests == {[kind |-> "single", files |-> <<FileText>>]}

\* The state after construction, for requests drawn from requests[p].
InitWith(requests) ==
    /\ lifespan = "startup"
    /\ model_service = FALSE
    /\ processor = FALSE
    /\ model = FALSE
    /\ is_initialized = FALSE
    /\ loadTask = "none"
    /\ model_lock = FALSE
    /\ store \in PersistedStores
    /\ \E req \in [Procs -> SingleRequests \cup BatchRequests] :
          /\ \A p \in Procs : req[p] \in requests[p]
          /\ kind = [p \in Procs |-> req[p].kind]
          /\ files = [p \in Procs |-> req[p].files]
          /\ trace = [p \in Procs |-> [k \in 1..Len(req[p].files) |-> NoTrace]]
    /\ pc = [p \in Procs |-> "idle"]
    /\ item = [p \in Procs |-> 1]
    /\ results = [p \in Procs |-> << >>]
    /\ resp = [p \in Procs |-> NoResp]
    /\ idx = [p \in Procs |-> 0]
    /\ yes_votes = [p \in Procs |-> 0]
    /\ no_votes = [p \in Procs |-> 0]
    /\ crop_votes = [p \in Procs |-> << >>]
    /\ asked = [p \in Procs |-> << >>]
    /\ det = [p \in Procs |-> None]
    /\ prior = [p \in Procs |-> NoPrior]
    /\ classified = {}

\* --------------------------------------------------- service lifecycle
\* lifespan, startup half: connect the store, create the ModelService and
\* schedule initialize() as a background task (main.py:35-39).
Startup ==
    /\ lifespan = "startup"
    /\ lifespan' = "serving"
    /\ model_service' = TRUE
    /\ loadTask' = "scheduled"
    /\ UNCHANGED <<processor, model, is_initialized, model_lock, store, reqVars,
                   ctlVars, voteVars, det, trace, prior, classified>>

\* ModelService.initialize, both loads succeeding (model_service.py:32-48).
Initialize ==
    /\ loadTask = "scheduled"
    /\ processor' = TRUE
    /\ model' = TRUE
    /\ is_initialized' = TRUE
    /\ loadTask' = "done"
    /\ UNCHANGED <<lifespan, model_service, model_lock, store, reqVars, ctlVars,
                   voteVars, det, trace, prior, classified>>

\* ModelService.initialize raising: from the processor load (nothing is
\* set) or from the model load (the processor stays set); is_initialized
\* stays false (model_service.py:51-53).
InitializeFails ==
    /\ loadTask = "scheduled"
    /\ \E loaded \in BOOLEAN : processor' = loaded
    /\ loadTask' = "failed"
    /\ UNCHANGED <<lifespan, model_service, model, is_initialized, model_lock,
                   store, reqVars, ctlVars, voteVars, det, trace, prior,
                   classified>>

\* model_service.py:179-190: cleanup does not touch model_lock.
LockAfterCleanupFreed == FALSE
LockAfterCleanup == model_lock

\* lifespan, shutdown half: ModelService.cleanup (model_service.py:186-188).
Cleanup ==
    /\ lifespan = "serving"
    /\ lifespan' = "shutdown"
    /\ processor' = FALSE
    /\ model' = FALSE
    /\ is_initialized' = FALSE
    /\ model_lock' = LockAfterCleanup
    /\ UNCHANGED <<model_service, loadTask, store, reqVars, ctlVars, voteVars,
                   det, trace, prior, classified>>

\* ------------------------------------------------------ handler plumbing
\* main.py:105 / 163: the handler goes on only past
\*   if not model_service or not getattr(model_service, "is_initialized", False)
ReadyAlways == TRUE
ReadyOnceCreated == model_service
Ready == model_service /\ is_initialized

\* model_service.py:133: detect_fall goes on only past  if not self.is_initialized
GateOpenAlways == TRUE
GateOpen == is_initialized

\* model_service.py:137: async with self.model_lock is entered when the lock
\* is free.
CanAcquireAlways == TRUE
CanAcquire == ~model_lock

\* model_service.py:137-177: the lock after leaving the async with block, by
\* "return" or by "raise".
LockAfterExitLeaky(exit) == exit = "raise"
LockAfterExit(exit) == FALSE

CurFile(p) == files[p][item[p]]
CurHash(p) == calculate_image_hash(CurFile(p).bytes)
ItemHash(p, k) == calculate_image_hash(files[p][k].bytes)
OwnHashes(p) == {ItemHash(p, k) : k \in 1..Len(files[p])}

ErrorItem(f, msg) == [filename |-> f.filename, error |-> msg]

\* detect_fall_batch, the loop head (main.py:171-177): files that are not
\* images get an error item and are passed over.
RECURSIVE SkipNonImages(_, _, _)
SkipNonImages(fs, k, res) ==
    IF k > Len(fs) THEN [item |-> k, results |-> res]
    ELSE IF ~IsImageType(fs[k].content_type)
         THEN SkipNonImages(fs, k + 1, Append(res, ErrorItem(fs[k], "File must be an image")))
         ELSE [item |-> k, results |-> res]

\* The batch handler after its results list became res: on to the next image
\* file, or return {"results": results} (main.py:227).
BatchGoOn(p, k, res) ==
    LET nxt == SkipNonImages(files[p], k, res)
    IN  /\ item' = [item EXCEPT ![p] = nxt.item]
        /\ results' = [results EXCEPT ![p] = nxt.results]
        /\ IF nxt.item > Len(files[p])
           THEN /\ pc' = [pc EXCEPT ![p] = "done"]
                /\ resp' = [resp EXCEPT ![p] = [status |-> 200, results |-> nxt.results]]
           ELSE /\ pc' = [pc EXCEPT ![p] = "lookup"]
                /\ resp' = resp

\* The current file's processing ends with a result dict: the single handler
\* returns it (main.py:121, 154); the batch handler adds the filename and
\* appends it (main.py:187-188, 209-219).
Answer(p, body) ==
    IF kind[p] = "single"
    THEN /\ pc' = [pc EXCEPT ![p] = "done"]
         /\ resp' = [resp EXCEPT ![p] = [status |-> 200, body |-> body]]
         /\ UNCHANGED <<item, results>>
    ELSE BatchGoOn(p, item[p] + 1,
                   Append(results[p], body @@ [filename |-> CurFile(p).filename]))

\* The current file's processing ends with an exception: the single handler
\* answers 500 (main.py:156-158); the batch handler appends an error item
\* and goes on (main.py:221-225).
ThrowAborts(p, msg) ==
    /\ pc' = [pc EXCEPT ![p] = "done"]
    /\ resp' = [resp EXCEPT ![p] = [status |-> 500, detail |-> msg]]
    /\ UNCHANGED <<item, results>>
Throw(p, msg) ==
    IF kind[p] = "single"
    THEN /\ pc' = [pc EXCEPT ![p] = "done"]
         /\ resp' = [resp EXCEPT ![p] = [status |-> 500, detail |-> msg]]
         /\ UNCHANGED <<item, results>>
    ELSE BatchGoOn(p, item[p] + 1, Append(results[p], ErrorItem(CurFile(p), msg)))

Reject(p, status, msg) ==
    /\ pc' = [pc EXCEPT ![p] = "done"]
    /\ resp' = [resp EXCEPT ![p] = [status |-> status, detail |-> msg]]
    /\ UNCHANGED <<item, results>>

Touch(p, field, value) ==
    trace' = [trace EXCEPT ![p][item[p]][field] = value]

\* One more inference query for the current file; failed tells that the
\* capability raised.
Query(p, failed) ==
    trace' = [trace EXCEPT ![p][item[p]].queries = @ + 1,
                           ![p][item[p]].failed = failed]

\* ------------------------------------------------------------ handlers
\* A request reaches its handler: detect_fall_single up to the await of
\* file.read() (main.py:105-114), detect_fall_batch up to the first await
\* (main.py:163-181).
Arrive(p) ==
    /\ pc[p] = "idle"
    /\ lifespan = "serving"
    /\ prior' = [prior EXCEPT ![p] =
                   [arrived |-> TRUE,
                    ready |-> model_service /\ is_initialized,
                    fresh |-> classified \cap OwnHashes(p),
                    stored |-> StoredHashes(store) \cap OwnHashes(p)]]
    /\ IF ~Ready
       THEN Reject(p, 503, "Model loading, try again shortly")
       ELSE IF kind[p] = "single"
            THEN IF ~IsImageType(files[p][1].content_type)
                 THEN Reject(p, 400, "File must be an image")
                 ELSE /\ pc' = [pc EXCEPT ![p] = "lookup"]
                      /\ UNCHANGED <<item, results, resp>>
            ELSE IF Len(files[p]) > MaxBatch
                 THEN Reject(p, 400, "Maximum 10 images per batch")
                 ELSE BatchGoOn(p, 1, << >>)
    /\ UNCHANGED <<svcVars, model_lock, store, reqVars, voteVars, det, trace,
                   classified>>

\* main.py:118, 156-158: check_existing_result raised; the handler's except
\* clause answers the error.
LookupFailedAsMiss(p) ==
    IF Decodable(CurFile(p).bytes)
    THEN /\ pc' = [pc EXCEPT ![p] = "acquire"]
         /\ UNCHANGED <<item, results, resp>>
    ELSE Throw(p, "cannot identify image file")
LookupFailed(p) == Throw(p, "store unavailable")

\* main.py:127: Image.open(...).convert("RGB") raises, before detect_fall is
\* called.
DecodeFailsLater(b) == FALSE
DecodeFails(b) == ~Decodable(b)

\* The bytes are read and hashed and the store is asked for the fingerprint
\* (main.py:114-121); on a miss the image is decoded and detect_fall is
\* called, which checks is_initialized and then waits for the lock
\* (main.py:124-131, model_service.py:133-137).
Lookup(p) ==
    /\ pc[p] = "lookup"
    /\ \E available \in BOOLEAN :
          IF ~available
          THEN /\ Touch(p, "read_failed", TRUE)
               /\ LookupFailed(p)
          ELSE LET existing_result == check_existing_result(store, CurHash(p))
               IN  /\ IF existing_result = None /\ ~DecodeFails(CurFile(p).bytes)
                      THEN Touch(p, "decoded", TRUE)
                      ELSE trace' = trace
                   /\ IF existing_result # None
                      THEN Answer(p, existing_result)
                      ELSE IF DecodeFails(CurFile(p).bytes)
                           THEN Throw(p, "cannot identify image file")
                           ELSE IF ~GateOpen
                                THEN Throw(p, "Model not initialized")
                                ELSE /\ pc' = [pc EXCEPT ![p] = "acquire"]
                                     /\ UNCHANGED <<item, results, resp>>
    /\ UNCHANGED <<svcVars, model_lock, store, reqVars, voteVars, det, prior,
                   classified>>

\* ------------------------------------------- detect_fall, inside the lock
Crops(p) == make_crops(ImageSize(CurFile(p).bytes))

\* What a query may produce now: with the processor or the model cleared
\* every query raises (model_service.py:71, 80).
Outcomes == IF processor /\ model THEN RawAnswers \cup {Failure} ELSE {Failure}

Waiting == {p \in Procs : pc[p] = "acquire"}
InSection == {p \in Procs : pc[p] \in {"ask_person", "ask_fall", "tally"}}

ClearLocals(p) ==
    /\ idx' = [idx EXCEPT ![p] = 0]
    /\ yes_votes' = [yes_votes EXCEPT ![p] = 0]
    /\ no_votes' = [no_votes EXCEPT ![p] = 0]

\* async with self.model_lock: the waiting call takes the free lock and
\* starts on the first crop (model_service.py:137-144).
Acquire(p) ==
    /\ pc[p] = "acquire"
    /\ CanAcquire
    /\ model_lock' = TRUE
    /\ pc' = [pc EXCEPT ![p] = "ask_person"]
    /\ idx' = [idx EXCEPT ![p] = 1]
    /\ yes_votes' = [yes_votes EXCEPT ![p] = 0]
    /\ no_votes' = [no_votes EXCEPT ![p] = 0]
    /\ crop_votes' = [crop_votes EXCEPT ![p] = << >>]
    /\ asked' = [asked EXCEPT ![p] = << >>]
    /\ Touch(p, "lock", TRUE)
    /\ UNCHANGED <<svcVars, store, reqVars, item, results, resp, det, prior,
                   classified>>

\* One crop has voted: on to the next crop, or out of the loop
\* (model_service.py:144, 154-159).
VoteYesOnly(p, positive) ==
    /\ yes_votes' = [yes_votes EXCEPT ![p] = IF positive THEN @ + 1 ELSE @]
    /\ no_votes' = no_votes
    /\ crop_votes' = [crop_votes EXCEPT ![p] = Append(@, positive)]
    /\ idx' = [idx EXCEPT ![p] = @ + 1]
    /\ pc' = [pc EXCEPT ![p] = IF idx[p] = Len(Crops(p)) THEN "tally" ELSE "ask_person"]
    /\ UNCHANGED <<model_lock, item, results, resp>>
Vote(p, positive) ==
    /\ yes_votes' = [yes_votes EXCEPT ![p] = IF positive THEN @ + 1 ELSE @]
    /\ no_votes' = [no_votes EXCEPT ![p] = IF positive THEN @ ELSE @ + 1]
    /\ crop_votes' = [crop_votes EXCEPT ![p] = Append(@, positive)]
    /\ idx' = [idx EXCEPT ![p] = @ + 1]
    /\ pc' = [pc EXCEPT ![p] = IF idx[p] = Len(Crops(p)) THEN "tally" ELSE "ask_person"]
    /\ UNCHANGED <<model_lock, item, results, resp>>

\* An exception leaves the async with block: the lock is released and the
\* handler's except clause takes over (model_service.py:175-177).
RaiseSwallowed(p, msg) ==
    /\ yes_votes' = yes_votes
    /\ no_votes' = [no_votes EXCEPT ![p] = @ + 1]
    /\ crop_votes' = [crop_votes EXCEPT ![p] = Append(@, FALSE)]
    /\ idx' = [idx EXCEPT ![p] = @ + 1]
    /\ pc' = [pc EXCEPT ![p] = IF idx[p] = Len(Crops(p)) THEN "tally" ELSE "ask_person"]
    /\ UNCHANGED <<model_lock, item, results, resp>>
    /\ asked' = asked
Raise(p, msg) ==
    /\ model_lock' = LockAfterExit("raise")
    /\ ClearLocals(p)
    /\ crop_votes' = [crop_votes EXCEPT ![p] = << >>]
    /\ asked' = [asked EXCEPT ![p] = << >>]
    /\ Throw(p, msg)

\* An entry of the query log: the crop, the stage and whether the normalized
\* answer was "Yes".
Asked(crop, stage, answer) == [crop |-> crop, stage |-> stage, affirmative |-> answer = Yes]

\* model_service.py:149  if seen == "Yes": the second question is asked
NeedsFallQueryAlways(seen) == TRUE
NeedsFallQuery(seen) == seen = Yes

\* model_service.py:153  if fallen == "Yes": the crop votes yes
VotesYesUnlessNo(fallen) == fallen # No
VotesYes(fallen) == fallen = Yes

\* seen = self._ask_yes_no(img, q_person)   (model_service.py:146-149, 158-159)
AskPerson(p) ==
    /\ pc[p] = "ask_person"
    /\ \E out \in Outcomes :
          IF out = Failure
          THEN /\ Query(p, TRUE)
               /\ Raise(p, "inference failed")
          ELSE LET seen == ask_yes_no(out)
               IN  /\ Query(p, FALSE)
                   /\ asked' = [asked EXCEPT ![p] = Append(@, Asked(idx[p], "person", seen))]
                   /\ IF NeedsFallQuery(seen)
                      THEN /\ pc' = [pc EXCEPT ![p] = "ask_fall"]
                           /\ UNCHANGED <<model_lock, item, results, resp, idx,
                                          yes_votes, no_votes, crop_votes>>
                      ELSE Vote(p, FALSE)
    /\ UNCHANGED <<svcVars, store, reqVars, det, prior, classified>>

\* fallen = self._ask_yes_no(img, q_fall)   (model_service.py:151-157)
AskFall(p) ==
    /\ pc[p] = "ask_fall"
    /\ \E out \in Outcomes :
          IF out = Failure
          THEN /\ Query(p, TRUE)
               /\ Raise(p, "inference failed")
          ELSE LET fallen == ask_yes_no(out)
               IN  /\ Query(p, FALSE)
                   /\ asked' = [asked EXCEPT ![p] = Append(@, Asked(idx[p], "fall", fallen))]
                   /\ Vote(p, VotesYes(fallen))
    /\ UNCHANGED <<svcVars, store, reqVars, det, prior, classified>>

\* The verdict is computed and returned; the lock is released on the way out
\* (model_service.py:161-173).
Tally(p) ==
    /\ pc[p] = "tally"
    /\ det' = [det EXCEPT ![p] =
                 [result |-> FinalResult(yes_votes[p], no_votes[p]),
                  confidence |-> Confidence(yes_votes[p], no_votes[p], Len(Crops(p))),
                  votes |-> [yes |-> yes_votes[p], no |-> no_votes[p],
                             total_crops |-> Len(Crops(p))]]]
    /\ model_lock' = LockAfterExit("return")
    /\ ClearLocals(p)
    /\ pc' = [pc EXCEPT ![p] = "save"]
    /\ UNCHANGED <<svcVars, store, reqVars, item, results, resp, crop_votes,
                   asked, trace, prior, classified>>

\* The response of a fresh classification (main.py:144-151, 209-217).
FreshResponseCached(h, d, size, ms) ==
    [image_hash |-> h, result |-> d.result, confidence |-> d.confidence,
     image_size |-> size, processing_time_ms |-> ms, cached |-> TRUE]
FreshResponse(h, d, size, ms) ==
    [image_hash |-> h, result |-> d.result, confidence |-> d.confidence,
     image_size |-> size, processing_time_ms |-> ms, cached |-> FALSE]

\* database.py:92-98: save_result returns True once the INSERT was executed,
\* whether or not it created a row, and False when the store raised.
SaveReturnCreated(available, created) == available /\ created
SaveReturn(available, created) == available

\* main.py:136-154: the handler does not look at what save_result returned
\* and answers the fresh result.
AfterSaveChecked(p, saved, body) ==
    IF saved THEN Answer(p, body) ELSE Throw(p, "save failed")
AfterSave(p, saved, body) == Answer(p, body)

\* The elapsed time is taken, save_result runs and the fresh result is
\* answered (main.py:133-154, database.py:83-98).  save_result returns True
\* after the INSERT and False when the store raised; the handler ignores it.
Save(p) ==
    /\ pc[p] = "save"
    /\ \E ms \in Elapsed, available \in BOOLEAN :
          LET size == ImageSize(CurFile(p).bytes)
          IN  /\ store' = IF available
                          THEN InsertOrIgnore(store, CurHash(p), det[p].result,
                                              det[p].confidence, size, ms)
                          ELSE store
              /\ trace' = [trace EXCEPT
                     ![p][item[p]].reached = available,
                     ![p][item[p]].created =
                         available /\ RowsOf(store, CurHash(p)) = {},
                     ![p][item[p]].save =
                         IF SaveReturn(available, RowsOf(store, CurHash(p)) = {})
                         THEN "true" ELSE "false"]
              /\ AfterSave(p, available, FreshResponse(CurHash(p), det[p], size, ms))
    /\ classified' = classified \cup {CurHash(p)}
    /\ det' = [det EXCEPT ![p] = None]
    /\ crop_votes' = [crop_votes EXCEPT ![p] = << >>]
    /\ asked' = [asked EXCEPT ![p] = << >>]
    /\ UNCHANGED <<svcVars, model_lock, reqVars, idx, yes_votes, no_votes, prior>>

\* ------------------------------------------------------- specification
Next ==
    \/ Startup
    \/ Initialize
    \/ InitializeFails
    \/ Cleanup
    \/ \E p \in Procs : Arrive(p)
    \/ \E p \in Procs : Lookup(p)
    \/ \E p \in Procs : Acquire(p)
    \/ \E p \in Procs : AskPerson(p)
    \/ \E p \in Procs : AskFall(p)
    \/ \E p \in Procs : Tally(p)
    \/ \E p \in Procs : Save(p)

\* Concurrent requests to /detect-fall/; the first may also be one of the
\* mixed batches to /detect-fall-batch/.
Init ==
    /\ InitWith([p \in Procs |-> IF p = 1 THEN SingleRequests \cup MixedBatchRequests
                                          ELSE SingleRequests])
    /\ call = NoCall
    /\ got = NoGot
Spec == Init /\ [][Next]_vars

\* The first request is any batch to /detect-fall-batch/; the others are
\* turned away at the content-type check.
InitBatch ==
    /\ InitWith([p \in Procs |-> IF p = 1 THEN BatchRequests ELSE RejectedRequests])
    /\ call = NoCall
    /\ got = NoGot
SpecBatch == InitBatch /\ [][Next]_vars

\* ------------------------------------------------- GET /result/{hash}
\* main.py:229-235: get_result does not ask whether the model is ready.
ResultGateReady == Ready
ResultGate == TRUE

\* get_result: the store is asked for the hash; the entry is returned, or
\* 404 when there is none; a store failure is not caught (500).
GetResult ==
    /\ lifespan = "serving"
    /\ \E h \in Hashes, available \in BOOLEAN :
          LET ready == model_service /\ is_initialized
              result == check_existing_result(store, h)
          IN  got' =
                IF ~ResultGate
                THEN [image_hash |-> h, ready |-> ready, answered |-> FALSE,
                      status |-> 503]
                ELSE IF ~available
                THEN [image_hash |-> h, ready |-> ready, answered |-> FALSE,
                      status |-> 500]
                ELSE IF result = None
                THEN [image_hash |-> h, ready |-> ready, answered |-> TRUE,
                      status |-> 404, detail |-> "Result not found"]
                ELSE [image_hash |-> h, ready |-> ready, answered |-> TRUE,
                      status |-> 200, body |-> result]
    /\ UNCHANGED <<svcVars, model_lock, store, kind, files, call, ctlVars,
                   voteVars, det, trace, prior, classified>>

\* One classify request of a decodable image, and GET requests at any time.
ResultRequests == {[kind |-> "single", files |-> <<f>>] : f \in {FileA, FileB}}
InitResult ==
    /\ InitWith([p \in Procs |-> IF p = 1 THEN ResultRequests ELSE RejectedRequests])
    /\ call = NoCall
    /\ got = NoGot
NextResult ==
    \/ Next
    \/ GetResult
SpecResult == InitResult /\ [][NextResult]_vars

\* ------------------------------------------------ the event loop's turns
\* From the miss to the return of detect_fall the handler does not await
\* (main.py:124-131, model_service.py:133-173; the lock is free, so entering
\* the async with block does not suspend): nothing else runs in between.
Running == {p \in Procs : pc[p] \in {"acquire", "ask_person", "ask_fall", "tally"}}
LoopBusyNever == FALSE
LoopBusy == Running # {}
Turn(A) == ~LoopBusy /\ A
NextLoop ==
    \/ Turn(Startup)
    \/ Turn(Initialize)
    \/ Turn(InitializeFails)
    \/ Turn(Cleanup)
    \/ \E p \in Procs : Turn(Arrive(p))
    \/ \E p \in Procs : Turn(Lookup(p))
    \/ \E p \in Procs : Turn(Save(p))
    \/ \E p \in Running : Acquire(p)
    \/ \E p \in Running : AskPerson(p)
    \/ \E p \in Running : AskFall(p)
    \/ \E p \in Running : Tally(p)
SpecLoop == Init /\ [][NextLoop]_vars

\* Every awaited operation of a handler returns: the store answers or
\* fails, the free lock is handed to a waiter, a query returns or raises.
FairnessAll ==
    \A p \in Procs : /\ WF_vars(Lookup(p))
                     /\ WF_vars(Acquire(p))
                     /\ WF_vars(AskPerson(p))
                     /\ WF_vars(AskFall(p))
                     /\ WF_vars(Tally(p))
                     /\ WF_vars(Save(p))
\* Concurrent requests to /detect-fall/ with an image or with an
\* undecodable payload.
InitLive ==
    /\ InitWith([p \in Procs |-> {[kind |-> "single", files |-> <<f>>] : f \in {FileA, FileEmpty}}])
    /\ call = NoCall
    /\ got = NoGot
FairSpecAll == InitLive /\ [][Next]_vars /\ FairnessAll

\* An inference query returns or raises, and the event loop resumes a call
\* whose await is over: a call inside the lock always takes its next step.
Fairness ==
    \A p \in Procs : /\ WF_vars(AskPerson(p))
                     /\ WF_vars(AskFall(p))
                     /\ WF_vars(Tally(p))
FairSpec == Spec /\ Fairness

\* ------------------------------------------- helpers called directly
\* The raw answers handed to _ask_yes_no: every text of up to MaxPieces
\* pieces.
Pieces == {<<Space>>, <<"x">>, <<"y">>, <<"n">>, yes, no, <<"Y", "E", "S">>, <<"N", "o">>}
RECURSIVE TextsOf(_)
TextsOf(n) ==
    IF n = 0 THEN {<< >>}
    ELSE LET shorter == TextsOf(n - 1)
         IN  shorter \cup {t \o q : t \in shorter, q \in Pieces}
Texts == TextsOf(MaxPieces)

\* The payloads handed to calculate_image_hash: every byte sequence of up
\* to MaxPayloadLen bytes, the empty one included.
Bytes == 0..4
Payloads == {<< >>} \cup SeqsUpTo(Bytes, MaxPayloadLen)

Pending(fn, arg) == [fn |-> fn, arg |-> arg, done |-> FALSE]
Returned(c, ret) == [fn |-> c.fn, arg |-> c.arg, done |-> TRUE, raised |-> FALSE, ret |-> ret]
Raised(c) == [fn |-> c.fn, arg |-> c.arg, done |-> TRUE, raised |-> TRUE]
\* The image sizes handed to _make_crops.
Sizes == {[w |-> w, h |-> h] : w \in 1..MaxSide, h \in 1..MaxSide}
Calls ==
    {Pending("_ask_yes_no", t) : t \in Texts}
        \cup {Pending("calculate_image_hash", b) : b \in Payloads}
        \cup {Pending("_make_crops", size) : size \in Sizes}

\* _ask_yes_no, from the decoded text on, returns.
CallAskYesNo ==
    /\ call.fn = "_ask_yes_no" /\ ~call.done
    /\ call' = Returned(call, ask_yes_no(call.arg))
    /\ UNCHANGED <<svcVars, model_lock, store, kind, files, got, ctlVars,
                   voteVars, det, trace, prior, classified>>

\* calculate_image_hash returns or raises.
CallHash ==
    /\ call.fn = "calculate_image_hash" /\ ~call.done
    /\ call' = IF calculate_image_hash_raises(call.arg)
               THEN Raised(call)
               ELSE Returned(call, calculate_image_hash(call.arg))
    /\ UNCHANGED <<svcVars, model_lock, store, kind, files, got, ctlVars,
                   voteVars, det, trace, prior, classified>>

\* _make_crops returns.
CallMakeCrops ==
    /\ call.fn = "_make_crops" /\ ~call.done
    /\ call' = Returned(call, make_crops(call.arg))
    /\ UNCHANGED <<svcVars, model_lock, store, kind, files, got, ctlVars,
                   voteVars, det, trace, prior, classified>>

NextCall ==
    \/ CallAskYesNo
    \/ CallHash
    \/ CallMakeCrops

\* The helpers applied to every input of the bounded sets, the service at
\* rest.
InitCall ==
    /\ InitWith([p \in Procs |-> RejectedRequests])
    /\ call \in Calls
    /\ got = NoGot
SpecCall == InitCall /\ [][NextCall]_vars

\* =============================================================== claims
Positives(votes) == Cardinality({i \in 1..Len(votes) : votes[i]})
Negatives(votes) == Cardinality({i \in 1..Len(votes) : ~votes[i]})

\* The result dict answered for file k of request p, or None while there is
\* none (an error item and an error response are not result dicts).
Answered(p, k) ==
    IF kind[p] = "single"
    THEN IF resp[p].status = 200 THEN resp[p].body ELSE None
    ELSE IF k <= Len(results[p]) /\ "cached" \in DOMAIN results[p][k]
         THEN [f \in DOMAIN results[p][k] \ {"filename"} |-> results[p][k][f]]
         ELSE None
Items(p) == 1..Len(files[p])
IsCached(r) == r # None /\ r.cached
IsFresh(r) == r # None /\ ~r.cached

\* C1: at most one detect_fall call is inside the lock-protected section,
\* however many calls are waiting for the lock.
C1_GateExclusive == Cardinality(InSection) <= 1
C1_Witness == \E p, q \in Procs : p # q /\ p \in InSection /\ q \in Waiting

C2_OneRowPerHash == \A h \in Hashes : Cardinality(RowsOf(store, h)) <= 1
C2_RowsKept == \A i \in 1..Len(store) : Len(store') >= i /\ store'[i] = store[i]
\* C2: the store never holds two rows of one fingerprint, and no step
\* changes or removes a row that is there: the first committed insert wins.
C2_WriteOnce == [](C2_OneRowPerHash) /\ [][C2_RowsKept]_vars
\* A save_result call returned True for a fingerprint whose stored row is
\* another call's.
C2_Witness ==
    \E p \in Procs : \E k \in Items(p) :
        /\ trace[p][k].save = "true"
        /\ IsFresh(Answered(p, k))
        /\ RowsOf(store, ItemHash(p, k)) # {}
        /\ check_existing_result(store, ItemHash(p, k)).processing_time_ms
               # Answered(p, k).processing_time_ms

\* Two requests missed the cache for the same fingerprint, classified it
\* with different outcomes and both called save_result.
RacedSaves(p, q) ==
    /\ p # q
    /\ kind[p] = "single" /\ kind[q] = "single"
    /\ ItemHash(p, 1) = ItemHash(q, 1)
    /\ trace[p][1].save # "none" /\ trace[q][1].save # "none"
    /\ Answered(p, 1) # Answered(q, 1)
\* C3 as claimed: concurrent save_result calls for one fingerprint with
\* differing entries leave exactly one stored row and none of them reports
\* an error.
C3_AnySaves ==
    \A p, q \in Procs :
        RacedSaves(p, q) =>
            /\ Cardinality(RowsOf(store, ItemHash(p, 1))) = 1
            /\ trace[p][1].save = "true" /\ trace[q][1].save = "true"
\* C3 as amended: a save_result call that reached the store returned True
\* and its fingerprint has exactly one stored row, whatever other calls for
\* that fingerprint did; and no save_result call raises: its handler goes on
\* to answer the fresh result.
C3_IdempotentInsert ==
    \A p \in Procs : \A k \in Items(p) :
        /\ trace[p][k].save = "true" =>
               Cardinality(RowsOf(store, ItemHash(p, k))) = 1
        /\ (trace[p][k].save # "none" /\ kind[p] = "single") =>
               IsFresh(Answered(p, k))
C3_Witness ==
    \E p, q \in Procs :
        /\ RacedSaves(p, q)
        /\ trace[p][1].save = "true" /\ trace[q][1].save = "true"
        /\ Cardinality(RowsOf(store, ItemHash(p, 1))) = 1

ShortCircuit(p, k) ==
    /\ ~trace[p][k].lock
    /\ trace[p][k].queries = 0
    /\ Answered(p, k) # None => Answered(p, k).cached
\* C4 as claimed: a request for bytes that an earlier, completed request
\* answered fresh never invokes the classifier and, when it is answered,
\* carries cached = true.
C4_AfterAnyFreshAnswer ==
    \A p \in Procs : \A k \in Items(p) :
        ItemHash(p, k) \in prior[p].fresh => ShortCircuit(p, k)
\* C4 as amended: the same, for bytes whose fresh answer was stored (its
\* save_result reached the store) before the later request arrived.
C4_CacheShortCircuit ==
    \A p \in Procs : \A k \in Items(p) :
        (ItemHash(p, k) \in prior[p].fresh /\ ItemHash(p, k) \in prior[p].stored)
            => ShortCircuit(p, k)
C4_Witness ==
    \E p \in Procs : \E k \in Items(p) :
        /\ ItemHash(p, k) \in prior[p].fresh
        /\ ItemHash(p, k) \in prior[p].stored
        /\ IsCached(Answered(p, k))

\* C5: a result answered with cached = true is the stored entry, and its
\* processing took no lock, issued no inference query and wrote nothing.
C5_HitTouchesNothing ==
    \A p \in Procs : \A k \in Items(p) :
        IsCached(Answered(p, k)) =>
            /\ trace[p][k] = NoTrace
            /\ Answered(p, k) = check_existing_result(store, ItemHash(p, k))
\* A hit answered while another request holds the lock.
C5_Witness ==
    \E p, q \in Procs :
        /\ p # q
        /\ q \in InSection
        /\ \E k \in Items(p) : IsCached(Answered(p, k))

\* C6 as claimed: a request whose fingerprint has a stored entry is answered
\* with it even while the gate is not ready; 503 goes to misses only.
C6_HitBeforeReadiness ==
    \A p \in Procs :
        (kind[p] = "single" /\ prior[p].arrived /\ ItemHash(p, 1) \in prior[p].stored
            /\ IsImageType(files[p][1].content_type) /\ ~prior[p].ready)
            => (pc[p] = "done" => IsCached(Answered(p, 1)))
\* C6 as amended: the readiness check comes before the lookup.  A request
\* that arrives while the gate is not ready is answered 503 even when its
\* fingerprint has a stored entry; a stored entry is answered (cached = true)
\* only to a request that arrived while the gate was ready.
C6_ReadinessBeforeLookup ==
    \A p \in Procs :
        (kind[p] = "single" /\ prior[p].arrived) =>
            /\ (ItemHash(p, 1) \in prior[p].stored /\ ~prior[p].ready)
                   => (pc[p] = "done" /\ resp[p].status = 503)
            /\ IsCached(Answered(p, 1)) => prior[p].ready
C6_Witness ==
    \E p \in Procs :
        /\ kind[p] = "single"
        /\ ItemHash(p, 1) \in prior[p].stored
        /\ ~prior[p].ready
        /\ resp[p].status = 503

\* C7: a request that arrives while the model service is absent or not
\* initialized is answered 503 at once: it never waits for the lock, issues
\* no inference query and writes nothing to the store.
C7_FailFastAtBoundary ==
    \A p \in Procs :
        (prior[p].arrived /\ ~prior[p].ready) =>
            /\ pc[p] = "done"
            /\ resp[p].status = 503
            /\ \A k \in Items(p) : trace[p][k] = NoTrace
\* Two concurrent requests, one of them a batch, both turned away.
C7_Witness ==
    \E p, q \in Procs :
        /\ p # q
        /\ kind[p] = "batch" /\ kind[q] = "single"
        /\ resp[p].status = 503 /\ resp[q].status = 503

C8_NoWaiterStep ==
    \A p \in Procs :
        (pc[p] = "lookup" /\ ~is_initialized) =>
            /\ pc'[p] \notin {"acquire", "ask_person", "ask_fall", "tally"}
            /\ \A k \in Items(p) :
                  /\ trace'[p][k].lock = trace[p][k].lock
                  /\ trace'[p][k].queries = trace[p][k].queries
                  /\ trace'[p][k].save = trace[p][k].save
\* C8: a detect_fall call made while is_initialized is false does not become
\* a waiter on the lock (nor enter the section): it raises at once.
C8_GateFailFast == [][C8_NoWaiterStep]_vars
\* The call raised "Model not initialized" while another call held the lock.
C8_Witness ==
    \E p, q \in Procs :
        /\ p # q
        /\ q \in InSection /\ model_lock
        /\ resp[p].status = 500 /\ resp[p].detail = "Model not initialized"

C9_HeldOnlyInside == model_lock <=> InSection # {}
\* C9: the lock is held only while a call is inside the section, so once
\* that call has finished (returned or raised) the lock is free; and a held
\* lock always becomes free again.
C9_GateReleased == [](C9_HeldOnlyInside) /\ (model_lock ~> ~model_lock)
\* A call left the section by an exception and another call waits.
C9_Witness ==
    \E p, q \in Procs :
        /\ p # q
        /\ resp[p].status = 500 /\ resp[p].detail = "inference failed"
        /\ ~model_lock
        /\ q \in Waiting

\* C10: the verdict detect_fall returns is "Yes" exactly when more crops
\* voted Positive than Negative, and "No" otherwise.
C10_StrictMajority ==
    \A p \in Procs :
        pc[p] = "save" =>
            /\ det[p].result \in {"Yes", "No"}
            /\ det[p].result = "Yes" <=> Positives(crop_votes[p]) > Negatives(crop_votes[p])
            /\ det[p].votes.yes = Positives(crop_votes[p])
            /\ det[p].votes.no = Negatives(crop_votes[p])
C10_Witness ==
    \E p \in Procs :
        /\ pc[p] = "save"
        /\ Positives(crop_votes[p]) = 2 /\ Negatives(crop_votes[p]) = 1
        /\ det[p].result = "Yes"

Abs(x) == IF x < 0 THEN -x ELSE x
\* C11: the confidence detect_fall returns is max(positive, negative) /
\* total_crops rounded to three decimals (here in thousandths): one of
\* 0.333, 0.667 and 1.0, 0.667 for a 2-1 split and 1.0 for a unanimous vote.
C11_ConfidenceArithmetic ==
    \A p \in Procs :
        pc[p] = "save" =>
            LET most == Max(Positives(crop_votes[p]), Negatives(crop_votes[p]))
                total == det[p].votes.total_crops
                c == det[p].confidence
            IN  /\ total = 3 /\ Len(crop_votes[p]) = total
                /\ 2 * Abs(total * c - Thousand * most) <= total
                /\ c \in {333, 667, 1000}
                /\ most = 2 => c = 667
                /\ most = 3 => c = 1000
C11_Witness ==
    \E p \in Procs :
        /\ pc[p] = "save"
        /\ Positives(crop_votes[p]) = 1 /\ Negatives(crop_votes[p]) = 2
        /\ det[p].confidence = 667

\* C12: for each crop the presence query comes first; the condition query
\* is issued exactly when the presence answer was "Yes"; the crop votes yes
\* exactly when both answers were "Yes"; the crops are asked in order and a
\* finished classification issued between 3 and 6 queries.
C12_TwoStageQueries ==
    \A p \in Procs :
        LET log == asked[p]
            PersonYes(c) == \E i \in 1..Len(log) :
                log[i].crop = c /\ log[i].stage = "person" /\ log[i].affirmative
            FallYes(c) == \E i \in 1..Len(log) :
                log[i].crop = c /\ log[i].stage = "fall" /\ log[i].affirmative
        IN  /\ \A i \in 1..Len(log) :
                  /\ log[i].stage = "fall" =>
                         /\ i > 1
                         /\ log[i - 1] = [crop |-> log[i].crop, stage |-> "person",
                                          affirmative |-> TRUE]
                  /\ log[i].stage = "person" =>
                         /\ IF i = 1 THEN log[i].crop = 1
                            ELSE /\ log[i].crop = log[i - 1].crop + 1
                                 /\ log[i - 1].stage = "person" => ~log[i - 1].affirmative
                         /\ log[i].affirmative =>
                                IF i < Len(log)
                                THEN log[i + 1].stage = "fall" /\ log[i + 1].crop = log[i].crop
                                ELSE pc[p] = "ask_fall"
            /\ \A c \in 1..Len(crop_votes[p]) :
                  crop_votes[p][c] <=> (PersonYes(c) /\ FallYes(c))
            /\ pc[p] \in {"tally", "save"} =>
                  /\ Len(crop_votes[p]) = 3
                  /\ Len(log) \in 3..6
                  /\ trace[p][item[p]].queries = Len(log)
\* A finished classification of five queries: two crops were asked both
\* questions, one only the first.
C12_Witness ==
    \E p \in Procs :
        /\ pc[p] = "tally"
        /\ Len(asked[p]) = 5
        /\ Positives(crop_votes[p]) = 1

\* The reference rule of answer normalization, on the raw text.
Trimmed(raw) ==
    LET inked == {i \in 1..Len(raw) : raw[i] # Space}
    IN  IF inked = {} THEN << >>
        ELSE SubSeq(raw, CHOOSE i \in inked : \A j \in inked : i <= j,
                         CHOOSE i \in inked : \A j \in inked : i >= j)
Normal(raw) == [i \in 1..Len(Trimmed(raw)) |-> LowerOf(Trimmed(raw)[i])]
Begins(t, tok) == \A i \in 1..Len(tok) : i <= Len(t) /\ t[i] = tok[i]
Holds(t, tok) ==
    \E k \in 0..(Len(t) - Len(tok)) : \A i \in 1..Len(tok) : t[k + i] = tok[i]
Reference(raw) ==
    LET t == Normal(raw)
    IN  IF Begins(t, yes) THEN "affirmative"
        ELSE IF Begins(t, no) THEN "negative"
        ELSE IF Holds(t, yes) /\ ~Holds(t, no) THEN "affirmative"
        ELSE IF Holds(t, no) THEN "negative"
        ELSE "indeterminate"
\* C13: _ask_yes_no answers "Yes" exactly for the texts the reference rule
\* calls affirmative and "No" for those it calls negative; any other text,
\* the empty one included, gets an answer that neither stage of detect_fall
\* treats as "Yes".
C13_Normalization ==
    (call.fn = "_ask_yes_no" /\ call.done) =>
        /\ ~call.raised
        /\ Reference(call.arg) = "affirmative" <=> call.ret = Yes
        /\ Reference(call.arg) = "negative" => call.ret = No
        /\ Reference(call.arg) = "indeterminate" =>
               /\ ~NeedsFallQuery(call.ret)
               /\ ~VotesYes(call.ret)
\* A text that holds both tokens and starts with neither was answered "No".
C13_Witness ==
    /\ call.fn = "_ask_yes_no" /\ call.done
    /\ Holds(Normal(call.arg), yes) /\ Holds(Normal(call.arg), no)
    /\ ~Begins(Normal(call.arg), yes) /\ ~Begins(Normal(call.arg), no)
    /\ call.ret = No

\* The processing of file k of request p ended with an error: the single
\* handler answered 500, the batch handler appended an error item.
Errored(p, k, msg) ==
    IF kind[p] = "single"
    THEN pc[p] = "done" /\ resp[p].status = 500 /\ resp[p].detail = msg
    ELSE /\ k <= Len(results[p])
         /\ results[p][k] = ErrorItem(files[p][k], msg)
Busy(p, k) == item[p] = k /\ pc[p] \in {"acquire", "ask_person", "ask_fall", "tally", "save"}

C14_Aborted ==
    \A p \in Procs : \A k \in Items(p) :
        trace[p][k].failed =>
            /\ ~Busy(p, k)
            /\ Errored(p, k, "inference failed")
            /\ Answered(p, k) = None
            /\ item[p] = k => det[p] = None
            /\ trace[p][k].save = "none" /\ ~trace[p][k].reached
C14_NothingAfter ==
    \A p \in Procs : \A k \in Items(p) :
        trace[p][k].failed => trace'[p][k] = trace[p][k]
\* C14: once an inference query of a classification has failed, no further
\* query is issued for that file, detect_fall returns no verdict, the file is
\* answered with an error and its request never calls save_result for it.
C14_AllOrNothing == [](C14_Aborted) /\ [][C14_NothingAfter]_vars
\* The fourth query of a classification failed.
C14_Witness ==
    \E p \in Procs :
        /\ trace[p][1].failed
        /\ trace[p][1].queries = 4
        /\ Errored(p, 1, "inference failed")

C15_SwallowedStep ==
    \A p \in Procs : \A k \in Items(p) :
        (trace[p][k].save = "none" /\ trace'[p][k].save # "none" /\ ~trace'[p][k].reached) =>
            /\ trace'[p][k].save = "false"
            /\ store' = store
            /\ IsFresh(Answered(p, k)')
            /\ Answered(p, k)'.result = det[p].result
            /\ Answered(p, k)'.confidence = det[p].confidence
C15_StillAnswered ==
    \A p \in Procs : \A k \in Items(p) :
        trace[p][k].save = "false" => IsFresh(Answered(p, k))
\* C15: a save_result call on which the store fails returns False without
\* raising and leaves the store as it was, and the caller is answered the
\* verdict and confidence detect_fall returned, with cached = false.
C15_WriteFailureSwallowed == [][C15_SwallowedStep]_vars /\ [](C15_StillAnswered)
\* A fresh answer whose fingerprint is not in the store.
C15_Witness ==
    \E p \in Procs : \E k \in Items(p) :
        /\ trace[p][k].save = "false"
        /\ IsFresh(Answered(p, k))
        /\ RowsOf(store, ItemHash(p, k)) = {}

C16_Surfaced ==
    \A p \in Procs : \A k \in Items(p) :
        trace[p][k].read_failed =>
            /\ ~Busy(p, k)
            /\ Errored(p, k, "store unavailable")
            /\ Answered(p, k) = None
            /\ ~trace[p][k].lock /\ trace[p][k].queries = 0
            /\ trace[p][k].save = "none" /\ ~trace[p][k].reached
C16_NothingAfter ==
    \A p \in Procs : \A k \in Items(p) :
        trace[p][k].read_failed => trace'[p][k] = trace[p][k]
\* C16: when check_existing_result fails, the file's processing ends with a
\* service error (500 from the single handler); the failure is not taken
\* for a miss: no lock, no inference query and no save_result for that file.
C16_ReadFailureSurfaces == [](C16_Surfaced) /\ [][C16_NothingAfter]_vars
\* The lookup of a decodable image failed while the service was ready and
\* the lock free.
C16_Witness ==
    \E p \in Procs :
        /\ kind[p] = "single"
        /\ trace[p][1].read_failed
        /\ Decodable(files[p][1].bytes)
        /\ is_initialized /\ ~model_lock
        /\ resp[p].status = 500

\* C17 as claimed: a request whose payload is empty or does not decode is
\* answered 400 and never gets as far as hashing its bytes and asking the
\* store (here for requests that arrived while the service was ready).
C17_InvalidInputFirst ==
    \A p \in Procs :
        (kind[p] = "single" /\ prior[p].arrived /\ prior[p].ready
            /\ ~Decodable(files[p][1].bytes)) =>
            /\ pc[p] # "lookup"
            /\ pc[p] = "done" => resp[p].status = 400

\* C18 as claimed: calculate_image_hash raises on the empty payload.
C18_EmptyFails ==
    (call.fn = "calculate_image_hash" /\ call.done /\ call.arg = << >>) => call.raised
\* C18 as amended: calculate_image_hash is total: on every payload, the empty
\* one included, it returns a digest and never raises.
C18_FingerprintTotal ==
    (call.fn = "calculate_image_hash" /\ call.done) =>
        /\ ~call.raised
        /\ call.ret \in Nat
C18_Witness ==
    /\ call.fn = "calculate_image_hash" /\ call.done
    /\ call.arg = << >>
    /\ ~call.raised

\* A save_result call for file k of request p returns in this step.
SaveReturns(p, k) == trace[p][k].save = "none" /\ trace'[p][k].save # "none"
C19_CreatedStep ==
    \A p \in Procs : \A k \in Items(p) :
        SaveReturns(p, k) =>
            (trace'[p][k].save = "true" <=> Len(store') = Len(store) + 1)
\* C19 as claimed: save_result returns True exactly when this call created
\* the stored row.
C19_TrueIffCreated == [][C19_CreatedStep]_vars
C19_ExecutedStep ==
    \A p \in Procs : \A k \in Items(p) :
        SaveReturns(p, k) =>
            /\ trace'[p][k].save = "true" <=> trace'[p][k].reached
            /\ Len(store') = Len(store) + 1 <=>
                   (trace'[p][k].reached /\ RowsOf(store, ItemHash(p, k)) = {})
            /\ Len(store') # Len(store) + 1 => store' = store
\* C19 as amended: save_result returns True exactly when its INSERT was
\* executed without a store failure; the call creates the row only if the
\* fingerprint had none, and otherwise (True or False) leaves the table as
\* it was.
C19_TrueIffExecuted == [][C19_ExecutedStep]_vars
\* A save_result call returned True and the stored row is another call's.
C19_Witness ==
    \E p, q \in Procs :
        /\ RacedSaves(p, q)
        /\ trace[p][1].save = "true" /\ trace[q][1].save = "true"
        /\ check_existing_result(store, ItemHash(p, 1)).processing_time_ms
               # Answered(q, 1).processing_time_ms

\* Two requests missed the cache for the same fingerprint and both were
\* admitted to the classifier.
Racers(p, q) ==
    /\ p # q
    /\ kind[p] = "single" /\ kind[q] = "single"
    /\ ItemHash(p, 1) = ItemHash(q, 1)
    /\ trace[p][1].lock /\ trace[q][1].lock
\* C20 as claimed: when both racers have finished their classification,
\* each is answered with cached = false and the store holds exactly one row
\* for the fingerprint.
C20_BothFreshOneRow ==
    \A p, q \in Procs :
        (Racers(p, q) /\ pc[p] = "done" /\ pc[q] = "done"
            /\ ~trace[p][1].failed /\ ~trace[q][1].failed) =>
            /\ IsFresh(Answered(p, 1)) /\ IsFresh(Answered(q, 1))
            /\ Cardinality(RowsOf(store, ItemHash(p, 1))) = 1
\* C20 as amended: the racers are inside the lock one at a time; each one
\* whose classification completed issued its own 3 to 6 queries and is
\* answered with cached = false; the store holds at most one row for the
\* fingerprint, and exactly one once a save_result call reached the store.
C20_NoComputeDedup ==
    \A p, q \in Procs :
        Racers(p, q) =>
            /\ ~(p \in InSection /\ q \in InSection)
            /\ (pc[p] = "done" /\ ~trace[p][1].failed) =>
                   /\ IsFresh(Answered(p, 1))
                   /\ trace[p][1].queries \in 3..6
                   /\ trace[p][1].save # "none"
            /\ Cardinality(RowsOf(store, ItemHash(p, 1))) <= 1
            /\ (trace[p][1].reached \/ trace[q][1].reached) =>
                   Cardinality(RowsOf(store, ItemHash(p, 1))) = 1
\* Both racers classified the image, with different verdicts, and one row
\* is stored.
C20_Witness ==
    \E p, q \in Procs :
        /\ Racers(p, q)
        /\ IsFresh(Answered(p, 1)) /\ IsFresh(Answered(q, 1))
        /\ Answered(p, 1).result # Answered(q, 1).result
        /\ Cardinality(RowsOf(store, ItemHash(p, 1))) = 1

\* File j of request p was answered fresh, and file k of request q, which
\* has the same bytes, was answered with a result after q had arrived with
\* that fresh answer given.
Resubmitted(p, j, q, k) ==
    /\ p # q
    /\ ItemHash(p, j) = ItemHash(q, k)
    /\ IsFresh(Answered(p, j))
    /\ ItemHash(q, k) \in prior[q].fresh
    /\ Answered(q, k) # None
    /\ \A r \in Procs \ {p, q} : ItemHash(p, j) \notin OwnHashes(r)
\* C21 as claimed: the second response is the first one with cached = true.
C21_OnlyCachedDiffers ==
    \A p, q \in Procs : \A j \in Items(p), k \in Items(q) :
        Resubmitted(p, j, q, k) =>
            Answered(q, k) = [Answered(p, j) EXCEPT !.cached = TRUE]
\* C21 as amended: when the first classification created the stored entry,
\* a request that arrives with the entry stored and is answered a result
\* gets cached = true and the first response's fingerprint, verdict,
\* confidence, image size and processing time; besides the cached flag it
\* carries one more field, created_at.
C21_Resubmission ==
    \A p, q \in Procs : \A j \in Items(p), k \in Items(q) :
        (/\ p # q
         /\ ItemHash(p, j) = ItemHash(q, k)
         /\ IsFresh(Answered(p, j)) /\ trace[p][j].created
         /\ ItemHash(q, k) \in prior[q].stored
         /\ Answered(q, k) # None) =>
            LET first == Answered(p, j)
                second == Answered(q, k)
            IN  /\ second.cached
                /\ DOMAIN second = DOMAIN first \cup {"created_at"}
                /\ \A f \in DOMAIN first \ {"cached"} : second[f] = first[f]
C21_Witness ==
    \E p, q \in Procs :
        /\ p # q /\ kind[p] = "single" /\ kind[q] = "single"
        /\ ItemHash(p, 1) = ItemHash(q, 1)
        /\ IsFresh(Answered(p, 1)) /\ trace[p][1].created
        /\ IsCached(Answered(q, 1))
        /\ Answered(q, 1).confidence = 667
        /\ Answered(q, 1).processing_time_ms = Answered(p, 1).processing_time_ms

\* C22 as claimed: the image is decoded while the lock is held, so a
\* request that has decoded its image has acquired the lock.
C22_DecodeInsideGate ==
    \A p \in Procs : \A k \in Items(p) :
        trace[p][k].decoded => trace[p][k].lock
\* C22 as amended: on a miss the image is decoded before the lock is
\* asked for (the lock is taken only with the image decoded, and an image
\* that fails to decode never takes the lock, issues no query and is not
\* saved); the classification runs inside the lock; and save_result is
\* called only after this call has released the lock.
C22_MissPathOrder ==
    \A p \in Procs : \A k \in Items(p) :
        /\ trace[p][k].lock => trace[p][k].decoded /\ Decodable(files[p][k].bytes)
        /\ (item[p] = k /\ pc[p] = "acquire") =>
               trace[p][k].decoded /\ ~trace[p][k].lock
        /\ Errored(p, k, "cannot identify image file") =>
               /\ ~trace[p][k].lock /\ trace[p][k].queries = 0
               /\ trace[p][k].save = "none"
        /\ trace[p][k].queries > 0 => trace[p][k].lock
        /\ ((item[p] = k /\ pc[p] = "save") \/ trace[p][k].save # "none") =>
               trace[p][k].lock /\ trace[p][k].queries \in 3..6
        /\ (item[p] = k /\ pc[p] = "save") =>
               (model_lock => \E q \in Procs \ {p} : q \in InSection)
\* One image failed to decode without the lock having been asked for, and
\* another request classified inside the lock and then called save_result.
C22_Witness ==
    \E p, q \in Procs :
        /\ p # q
        /\ Errored(p, 1, "cannot identify image file") /\ ~trace[p][1].lock
        /\ trace[q][1].lock /\ trace[q][1].save # "none"

C23_EntryOr404Step ==
    got' # got =>
        IF RowsOf(store, got'.image_hash) # {}
        THEN got'.status = 200
        ELSE got'.status = 404
\* C23 as claimed: GET /result/{hash} answers the stored entry when there
\* is one and 404 otherwise.
C23_EntryOr404 == [][C23_EntryOr404Step]_vars
C23_ReadOnlyStep ==
    got' # got =>
        /\ store' = store /\ model_lock' = model_lock
        /\ is_initialized' = is_initialized /\ processor' = processor /\ model' = model
        /\ pc' = pc /\ trace' = trace
        /\ got'.ready = (model_service /\ is_initialized)
        /\ IF ~got'.answered THEN got'.status = 500
           ELSE IF RowsOf(store, got'.image_hash) # {}
           THEN /\ got'.status = 200
                /\ got'.body = check_existing_result(store, got'.image_hash)
           ELSE got'.status = 404
\* C23 as amended: get_result leaves the store, the lock and the readiness
\* flag as they are and does not look at readiness; when the store answers
\* the query it returns the stored entry if there is one and 404 otherwise,
\* and when the store fails the request ends with an error (500).
C23_ReadOnly == [][C23_ReadOnlyStep]_vars
\* A stored entry was returned while the model was not ready.
C23_Witness ==
    /\ got.status = 200
    /\ ~got.ready
    /\ got.body.cached

\* The messages of the error items a batch can hold.
ItemErrors ==
    {"File must be an image", "store unavailable", "cannot identify image file",
     "Model not initialized", "inference failed"}
IsErrorItem(r) == DOMAIN r = {"filename", "error"}
\* File k of batch p was not touched: no lookup, no lock, no query, no save.
Untouched(p, k) == trace[p][k] = NoTrace
C24_WitnessOversize ==
    \E p \in Procs :
        /\ kind[p] = "batch" /\ Len(files[p]) > MaxBatch
        /\ pc[p] = "done" /\ resp[p].status = 400

\* What belongs to the detect_fall call of request p.
OwnState(p) ==
    <<pc[p], item[p], idx[p], yes_votes[p], no_votes[p], crop_votes[p],
      asked[p], det[p], trace[p]>>
\* The call of request p left the section with a verdict or with a failure.
Finished(p) ==
    \/ pc'[p] = "save" /\ det'[p] # None
           /\ det'[p].result = FinalResult(yes_votes[p], no_votes[p])
    \/ trace'[p][item[p]].failed /\ pc'[p] # "save"
C25_NoCancelStep ==
    \A p \in InSection :
        /\ model_lock
        /\ \/ /\ OwnState(p)' = OwnState(p)
              /\ model_lock'
           \/ /\ AskPerson(p) \/ AskFall(p) \/ Tally(p)
              /\ IF p \in InSection' THEN model_lock'
                 ELSE Finished(p) /\ ~model_lock'
\* C25: once a detect_fall call holds the lock, every step of anything
\* else (an arrival, a lookup or save of another request, another call
\* asking for the lock, startup or shutdown) leaves the call's position,
\* votes and the lock as they are; the lock is released only by the call's
\* own step that ends it with a verdict or a failure.
C25_NoCancel == [][C25_NoCancelStep]_vars
\* A call is past its first crop inside the lock while another request
\* is suspended at its store insert.
C25_Witness ==
    \E p, q \in Procs :
        /\ p \in InSection /\ idx[p] >= 2
        /\ pc[q] = "save"

\* Box a lies inside box b.
Inside(a, b) == a.l >= b.l /\ a.t >= b.t /\ a.r <= b.r /\ a.b <= b.b
\* The square of the given side whose top-left corner is at (x, y).
Square(x, y, side) == Box(x, y, x + side, y + side)
\* C26: for an image of width w and height h, both at least 1, _make_crops
\* returns three crops in this order: the whole image, the square of side
\* m = min(w, h) at ((w-m) div 2, (h-m) div 2), and the square of side
\* s = floor(0.8 m) at ((w-s) div 2, (h-s) div 2); the third lies inside
\* the second and the second inside the image.
C26_CropGeometry ==
    (call.fn = "_make_crops" /\ call.done) =>
        LET w == call.arg.w
            h == call.arg.h
            m == IF w <= h THEN w ELSE h
            s == CHOOSE n \in 0..m : 10 * n <= 8 * m /\ 8 * m < 10 * (n + 1)
            crops == call.ret
        IN  /\ ~call.raised
            /\ Len(crops) = 3
            /\ crops[1] = Box(0, 0, w, h)
            /\ crops[2] = Square((w - m) \div 2, (h - m) \div 2, m)
            /\ crops[3] = Square((w - s) \div 2, (h - s) \div 2, s)
            /\ Inside(crops[3], crops[2])
            /\ Inside(crops[2], crops[1])
\* The crops of a 6 x 3 image were returned: the square of side 3 is one
\* unit beside the square of side 2.
C26_Witness ==
    /\ call.fn = "_make_crops" /\ call.done
    /\ call.arg = [w |-> 6, h |-> 3]
    /\ call.ret[2] = Box(1, 0, 4, 3)
    /\ call.ret[3] = Box(2, 0, 4, 2)

\* File k of request p was answered fresh and its save_result call found
\* the store available.
Backed(p, k) == IsFresh(Answered(p, k)) /\ trace[p][k].save = "true"
\* The fingerprints with a fresh answer whose insert was executed.
BackedHashes == UNION {{ItemHash(p, k) : k \in {j \in Items(p) : Backed(p, j)}} : p \in Procs}
C27_EntryExists ==
    \A p \in Procs : \A k \in Items(p) :
        Backed(p, k) => RowsOf(store, ItemHash(p, k)) # {}
\* Request q ends the lookup of its current file in this step.
LooksUp(q) == pc[q] = "lookup" /\ (pc'[q] # "lookup" \/ item'[q] # item[q])
C27_LaterLookupHitsStep ==
    \A q \in Procs :
        (LooksUp(q) /\ CurHash(q) \in BackedHashes) =>
            \/ trace'[q][item[q]].read_failed
            \/ IF kind[q] = "single"
               THEN resp'[q].status = 200 /\ resp'[q].body.cached
               ELSE /\ Len(results'[q]) >= item[q]
                    /\ "cached" \in DOMAIN results'[q][item[q]]
                    /\ results'[q][item[q]].cached
C28_ReadyIsLoaded == is_initialized => (processor /\ model)
C28_InsideIsReady == \A p \in InSection : is_initialized /\ processor /\ model
\* Request p issues an inference query in this step.
Queries(p) == \E k \in Items(p) : trace'[p][k].queries > trace[p][k].queries
C28_QueryStep == \A p \in Procs : Queries(p) => (is_initialized /\ processor /\ model)
\* C28: is_initialized = true implies that the processor and the model are
\* loaded, and while a detect_fall call is inside the lock-protected
\* section is_initialized is true: every inference query is issued with
\* the capability loaded.
C28_ReadyInside ==
    [](C28_ReadyIsLoaded /\ C28_InsideIsReady) /\ [][C28_QueryStep]_vars
\* A call is inside the section with a query issued, while another request
\* that arrived earlier is suspended at its lookup.
C28_Witness ==
    \E p, q \in Procs :
        /\ p \in InSection /\ trace[p][item[p]].queries >= 1
        /\ is_initialized
        /\ pc[q] = "lookup"

\* The processing of file k of request p missed the cache with the
\* capability ready and is over: a fresh result, a decode error or an
\* inference error.
MissedAndOver(p, k) ==
    \/ IsFresh(Answered(p, k))
    \/ Errored(p, k, "cannot identify image file")
    \/ Errored(p, k, "inference failed")
\* C29 as claimed, the part that is a safety property: a request that
\* missed the cache with the capability ready has acquired the lock by the
\* time it is answered.
C29_MissAcquires ==
    \A p \in Procs : \A k \in Items(p) :
        MissedAndOver(p, k) => trace[p][k].lock
\* The rest of C29: a call that waits for the lock gets it, and a request
\* that has arrived is answered.
C29_EventuallyAnswered ==
    \A p \in Procs :
        /\ (pc[p] = "acquire") ~> (p \in InSection)
        /\ (pc[p] \notin {"idle", "done"}) ~> (pc[p] = "done")

\* Inside the loop every crop done so far has cast exactly one vote.
C30_OneVotePerCrop ==
    \A p \in InSection :
        /\ yes_votes[p] + no_votes[p] = Len(crop_votes[p])
        /\ Len(crop_votes[p]) = idx[p] - 1
        /\ pc[p] = "tally" <=> Len(crop_votes[p]) = 3
C30_Returned ==
    \A p \in Procs :
        pc[p] = "save" =>
            LET v == det[p].votes
            IN  /\ v.yes + v.no = v.total_crops
                /\ v.total_crops = 3
                /\ Len(crop_votes[p]) = 3
                /\ v.yes \in 0..3 /\ v.no \in 0..3
                /\ (IF v.yes >= v.no THEN v.yes ELSE v.no) >= 2
                /\ det[p].confidence >= 667
                /\ det[p].confidence # 333
\* C30: on every successful return of detect_fall yes_votes + no_votes =
\* total_crops = 3, each crop has cast exactly one vote, so the larger
\* count is at least 2 and the confidence (in thousandths) is at least
\* 667, never 333.
C30_VoteTally == C30_OneVotePerCrop /\ C30_Returned
\* detect_fall returned with all three crops voting yes.
C30_Witness ==
    \E p \in Procs :
        /\ pc[p] = "save"
        /\ det[p].votes = [yes |-> 3, no |-> 0, total_crops |-> 3]
        /\ det[p].confidence = Thousand

C31_RowsTwoValued ==
    \A i \in 1..Len(store) :
        /\ store[i].result \in {"Yes", "No"}
        /\ store[i].confidence \in {667, Thousand}
C31_StatisticsAddUp ==
    LET stats == get_statistics(store)
    IN  stats.total_processed = stats.fall_detected + stats.no_fall
\* C31: every entry the request handlers write to the store has result
\* "Yes" or "No" and confidence 0.667 or 1.0 (in thousandths: 667 or 1000),
\* so the statistics always satisfy total_processed = fall_detected +
\* no_fall.
C31_TwoValued == C31_RowsTwoValued /\ C31_StatisticsAddUp
\* The handlers have stored a "Yes" with confidence 0.667 next to a "No":
\* two entries processed, one fall detected, one not.
C31_Witness ==
    /\ \E p \in Procs : \E i \in 1..Len(store) :
           /\ trace[p][1].created
           /\ store[i].image_hash = ItemHash(p, 1)
           /\ store[i].result = "Yes" /\ store[i].confidence = 667
    /\ get_statistics(store) =
           [total_processed |-> 2, fall_detected |-> 1, no_fall |-> 1]

\* Files j and k of batch p, j before k, hold the same bytes; file j was
\* classified and its entry stored; file k has its item in the results; no
\* other request has a file with that fingerprint.
DuplicateDone(p, j, k) ==
    /\ kind[p] = "batch" /\ j < k
    /\ ItemHash(p, j) = ItemHash(p, k)
    /\ IsFresh(Answered(p, j)) /\ trace[p][j].created
    /\ Len(results[p]) >= k
    /\ \A q \in Procs \ {p} : ItemHash(p, j) \notin OwnHashes(q)
\* C32 as claimed: the second occurrence is answered from the cache with
\* cached = true.
C32_SecondIsCached ==
    \A p \in Procs : \A j, k \in Items(p) :
        DuplicateDone(p, j, k) => IsCached(Answered(p, k))
\* C32 as amended: the second occurrence never reaches the classifier (no
\* lock, no query, no save); when the store answers its lookup it gets the
\* stored entry with cached = true, the verdict and confidence of the first
\* occurrence, and when its lookup fails it gets an error item.
C32_ClassifiedOnce ==
    \A p \in Procs : \A j, k \in Items(p) :
        DuplicateDone(p, j, k) =>
            /\ ~trace[p][k].lock /\ trace[p][k].queries = 0
            /\ ~trace[p][k].decoded /\ trace[p][k].save = "none"
            /\ IF trace[p][k].read_failed
               THEN results[p][k] = ErrorItem(files[p][k], "store unavailable")
               ELSE /\ IsCached(Answered(p, k))
                    /\ Answered(p, k).result = Answered(p, j).result
                    /\ Answered(p, k).confidence = Answered(p, j).confidence
                    /\ Answered(p, k).image_hash = Answered(p, j).image_hash
\* A batch of the same image twice was answered: the first item fresh, the
\* second from the store.
C32_Witness ==
    \E p \in Procs :
        /\ files[p] = <<FileA, FileA>>
        /\ DuplicateDone(p, 1, 2)
        /\ pc[p] = "done"
        /\ IsCached(Answered(p, 2))
        /\ trace[p][1].queries >= 3

Width(box) == box.r - box.l
Height(box) == box.b - box.t
\* C33: for an image of width and height at least 1, each of the three
\* crops _make_crops returns has width >= 1 and height >= 1.
C33_CropsNonEmpty ==
    (call.fn = "_make_crops" /\ call.done) =>
        \A i \in 1..Len(call.ret) :
            Width(call.ret[i]) >= 1 /\ Height(call.ret[i]) >= 1
\* What holds instead: the first two crops are never empty, and the third
\* is empty exactly when the shorter side of the image is 1.
C33_EmptyOnlyAtOne ==
    (call.fn = "_make_crops" /\ call.done) =>
        /\ \A i \in 1..2 : Width(call.ret[i]) >= 1 /\ Height(call.ret[i]) >= 1
        /\ Width(call.ret[3]) = Height(call.ret[3])
        /\ Width(call.ret[3]) = 0 <=> Min(call.arg.w, call.arg.h) = 1

====
